---- MODULE Spec2Model ----
(***************************************************************************)
(* A model of the sentinels setup generator (src/src/app.go): the card     *)
(* catalog and its selection by expansion (GetCardSet), the calibration    *)
(* table lookup (findDifficultyRange), the random subset draw (pick), the  *)
(* candidate sampler (makeSetup) and the bounded search (FindSetup).       *)
(***************************************************************************)
EXTENDS Integers, Sequences, FiniteSets, TLC

VARIABLES
    pc,       \* FindSetup argument: player count
    lp,       \* FindSetup argument: target loss percentage
    rg,       \* FindSetup argument: tolerance around the band
    exp,      \* FindSetup argument: the selected expansions (a Go slice)
    scale,    \* sd.Scale, the calibration table
    cs,       \* FindSetup local: the CardSet of the selection
    min,      \* FindSetup local: lower score of the band
    max,      \* FindSetup local: upper score of the band
    pcpts,    \* FindSetup local: sd.Difficulty.Nump[pc-3].Points
    i,        \* FindSetup loop counter
    s,        \* makeSetup local: the Setup under construction / returned
    at,       \* control position of the call
    ret,      \* FindSetup's return values (Setup, count, error)
    draws,    \* history: number of makeSetup calls that went on to draw
    drew,     \* history: some random value was consumed by this call
    discards, \* history: hero draws the running makeSetup call threw away:
              \* 0 for none, then 1, 2, 1, 2, .. from one to the next
    earlierOutside, \* history: every finished earlier draw scored outside the interval
    calls,    \* history: number of makeSetup calls of this FindSetup call
    inv,      \* concurrent FindSetup calls: the locals of each, by invocation
    pk,       \* pick: its arguments n, m and its locals vals, i, with its control position
    gc        \* GetCardSet: its argument exp, its local cs and the position of its range loop

vars == <<pc, lp, rg, exp, scale, cs, min, max, pcpts, i, s, at, ret,
          draws, drew, discards, earlierOutside, calls, inv, pk, gc>>

----------------------------------------------------------------------------
(* Bounds of the model *)

\* The trial cap of FindSetup (100000 in the source, line 308), scaled down.
MaxTrials == 3

\* A hero draw that is thrown away is explored only while the accumulated
\* Difficulty stays within this distance of zero.
MaxAbsDifficulty == 70

----------------------------------------------------------------------------
(* Types: CardType and ExpansionType (iota constants) *)

Hero == 0
Villain == 1
Environment == 2

BaseSet == 0
MiniExpansion == 1
Promos == 6

----------------------------------------------------------------------------
(* The static data: a part of sdJson, with the points and bases it gives *)

diff(name, base, points) == [Name |-> name, Base |-> base, Points |-> points]

HeroData ==
    << diff("Bunker", "", 26),
       diff("Bunker Engine of War", "Bunker", 20),
       diff("Dark Watch Fixer", "Mr. Fixer", 10),
       diff("Ra: Horus of Two Horizons", "Ra", -20) >>

VillainData ==
    << diff("Baron Blade", "", -63),
       diff("Omnitron", "", 7),
       diff("Cosmic Omnitron", "Omnitron", 63) >>

EnvData ==
    << diff("Megalopolis", "", -9),
       diff("Insula Primalis", "", 3) >>

Nump ==
    << diff("Three", "", 42),
       diff("Four", "", -38),
       diff("Five", "", -42) >>

\* ExpansionCards: the names each expansion lists; a card no expansion lists
\* keeps the zero value of its Expansion field, BaseSet.
ExpansionCards ==
    [e \in {MiniExpansion, Promos} |->
        IF e = Promos
        THEN {"Bunker Engine of War", "Dark Watch Fixer",
              "Ra: Horus of Two Horizons", "Cosmic Omnitron"}
        ELSE {}]

sc(total, losspct) == [Total |-> total, LossPct |-> losspct]

\* The "scale" array of sdJson, all 200 breakpoints in stored order.
Scale == <<
    sc(500, 99), sc(495, 99), sc(490, 98), sc(484, 98),
    sc(480, 98), sc(475, 98), sc(470, 98), sc(465, 98),
    sc(459, 98), sc(455, 98), sc(450, 97), sc(445, 97),
    sc(440, 97), sc(434, 97), sc(430, 97), sc(425, 97),
    sc(420, 96), sc(415, 96), sc(409, 96), sc(405, 96),
    sc(400, 95), sc(395, 95), sc(390, 95), sc(385, 95),
    sc(380, 94), sc(375, 94), sc(370, 94), sc(365, 94),
    sc(360, 93), sc(355, 93), sc(350, 92), sc(345, 92),
    sc(340, 92), sc(335, 91), sc(330, 91), sc(325, 90),
    sc(320, 90), sc(315, 90), sc(310, 89), sc(305, 88),
    sc(300, 88), sc(295, 87), sc(290, 87), sc(285, 86),
    sc(280, 86), sc(275, 85), sc(270, 84), sc(265, 84),
    sc(260, 83), sc(254, 82), sc(250, 81), sc(245, 81),
    sc(240, 80), sc(235, 79), sc(229, 78), sc(225, 77),
    sc(220, 76), sc(215, 75), sc(210, 74), sc(204, 73),
    sc(200, 72), sc(195, 71), sc(190, 70), sc(185, 69),
    sc(180, 68), sc(175, 67), sc(170, 66), sc(165, 65),
    sc(160, 64), sc(155, 63), sc(150, 61), sc(145, 60),
    sc(140, 59), sc(135, 58), sc(130, 57), sc(125, 55),
    sc(120, 54), sc(114, 53), sc(110, 52), sc(105, 50),
    sc(100, 49), sc(95, 48), sc(90, 47), sc(85, 45),
    sc(80, 44), sc(75, 43), sc(70, 42), sc(65, 40),
    sc(60, 39), sc(55, 38), sc(50, 37), sc(45, 36),
    sc(40, 35), sc(35, 34), sc(30, 32), sc(25, 31),
    sc(20, 30), sc(15, 29), sc(10, 28), sc(5, 27),
    sc(0, 26), sc(-5, 25), sc(-10, 24), sc(-15, 24),
    sc(-20, 23), sc(-25, 22), sc(-30, 21), sc(-35, 20),
    sc(-40, 19), sc(-45, 19), sc(-50, 18), sc(-55, 17),
    sc(-60, 17), sc(-65, 16), sc(-70, 15), sc(-75, 15),
    sc(-80, 14), sc(-85, 13), sc(-90, 13), sc(-95, 12),
    sc(-100, 12), sc(-105, 11), sc(-110, 11), sc(-114, 10),
    sc(-120, 10), sc(-125, 10), sc(-130, 9), sc(-135, 9),
    sc(-140, 8), sc(-145, 8), sc(-150, 8), sc(-155, 7),
    sc(-160, 7), sc(-165, 7), sc(-170, 6), sc(-175, 6),
    sc(-180, 6), sc(-185, 6), sc(-190, 5), sc(-195, 5),
    sc(-200, 5), sc(-204, 5), sc(-210, 5), sc(-215, 4),
    sc(-220, 4), sc(-225, 4), sc(-229, 4), sc(-235, 4),
    sc(-240, 4), sc(-245, 3), sc(-250, 3), sc(-254, 3),
    sc(-260, 3), sc(-265, 3), sc(-270, 3), sc(-275, 3),
    sc(-280, 3), sc(-285, 2), sc(-290, 2), sc(-295, 2),
    sc(-300, 2), sc(-305, 2), sc(-310, 2), sc(-315, 2),
    sc(-320, 2), sc(-325, 2), sc(-330, 2), sc(-335, 2),
    sc(-340, 2), sc(-345, 2), sc(-350, 2), sc(-355, 1),
    sc(-360, 1), sc(-365, 1), sc(-370, 1), sc(-375, 1),
    sc(-380, 1), sc(-385, 1), sc(-390, 1), sc(-395, 1),
    sc(-400, 1), sc(-405, 1), sc(-409, 1), sc(-415, 1),
    sc(-420, 1), sc(-425, 1), sc(-430, 1), sc(-434, 1),
    sc(-440, 1), sc(-445, 1), sc(-450, 1), sc(-455, 1),
    sc(-459, 1), sc(-465, 1), sc(-470, 1), sc(-475, 1),
    sc(-480, 1), sc(-484, 1), sc(-490, 1), sc(-495, 1)
    >>

----------------------------------------------------------------------------
(* makeCards *)

makeCard(d, type) ==
    [Name |-> d.Name,
     Type |-> type,
     Expansion |-> IF \E e \in DOMAIN ExpansionCards : d.Name \in ExpansionCards[e]
                   THEN CHOOSE e \in DOMAIN ExpansionCards : d.Name \in ExpansionCards[e]
                   ELSE BaseSet,
     Points |-> d.Points,
     Base |-> IF d.Base = "" THEN d.Name ELSE d.Base]

\* Cards: the master map of all cards, listed here in the order of the data.
Cards ==
    [k \in 1..Len(HeroData) |-> makeCard(HeroData[k], Hero)]
    \o [k \in 1..Len(VillainData) |-> makeCard(VillainData[k], Villain)]
    \o [k \in 1..Len(EnvData) |-> makeCard(EnvData[k], Environment)]

Reverse(q) == [k \in 1..Len(q) |-> q[Len(q) + 1 - k]]

\* Go iterates a map in an unspecified order: the orders explored.
MapOrders == {Cards, Reverse(Cards)}

NilCard == [Name |-> "", Type |-> -1, Expansion |-> -1, Points |-> 0, Base |-> ""]

----------------------------------------------------------------------------
(* GetCardSet: the cards of the selected expansions, by type, in the order *)
(* the map iteration (cards) yields them                                   *)

found(c, e) == \E k \in 1..Len(e) : c.Expansion = e[k]

GetCardSet(cards, e) ==
    [Heroes       |-> SelectSeq(cards, LAMBDA c : found(c, e) /\ c.Type = Hero),
     Villains     |-> SelectSeq(cards, LAMBDA c : found(c, e) /\ c.Type = Villain),
     Environments |-> SelectSeq(cards, LAMBDA c : found(c, e) /\ c.Type = Environment)]

----------------------------------------------------------------------------
(* findDifficultyRange: the scan of the table for loss percentage l.  A  *)
(* scan state holds the named results min and max (zero at the start) and  *)
(* whether the loop has hit its break; as history it holds the number of   *)
(* breakpoints the loop body ran for (the one it broke at included) and    *)
(* the breakpoints it recorded as matches.                                 *)

\* The loop body as it would be with the break one percent too late.
rangeStep_lateBreak(st, v, l) ==
    IF st.stopped THEN st
    ELSE IF v.LossPct <= l - 2
         THEN [st EXCEPT !.stopped = TRUE, !.visited = st.visited + 1]
    ELSE IF v.LossPct <= l
         THEN [st EXCEPT !.max = IF st.max = 0 THEN v.Total ELSE st.max,
                         !.min = v.Total,
                         !.visited = st.visited + 1,
                         !.matches = Append(st.matches, v)]
         ELSE [st EXCEPT !.visited = st.visited + 1]

\* The loop body of lines 325-333 for breakpoint v.
rangeStep(st, v, l) ==
    IF st.stopped THEN st
    ELSE IF v.LossPct <= l - 1
         THEN [st EXCEPT !.stopped = TRUE, !.visited = st.visited + 1]
    ELSE IF v.LossPct <= l
         THEN [st EXCEPT !.max = IF st.max = 0 THEN v.Total ELSE st.max,
                         !.min = v.Total,
                         !.visited = st.visited + 1,
                         !.matches = Append(st.matches, v)]
         ELSE [st EXCEPT !.visited = st.visited + 1]

\* The loop over tbl[a..b] in stored order, started in state st (the range
\* is split in halves to keep the evaluation shallow).
RECURSIVE rangeScan(_, _, _, _, _)
rangeScan(tbl, l, a, b, st) ==
    IF a > b THEN st
    ELSE IF a = b THEN rangeStep(st, tbl[a], l)
    ELSE LET mid  == (a + b) \div 2
             left == rangeScan(tbl, l, a, mid, st)
         IN  IF left.stopped THEN left ELSE rangeScan(tbl, l, mid + 1, b, left)

\* The whole loop of lines 324-334, from the zero values of min and max.
scan(tbl, l) ==
    rangeScan(tbl, l, 1, Len(tbl),
              [min |-> 0, max |-> 0, stopped |-> FALSE, visited |-> 0, matches |-> <<>>])

findDifficultyRange(tbl, l) ==
    LET end == scan(tbl, l)
    IN  <<end.min, end.max>>

----------------------------------------------------------------------------
(* pick: m different numbers between 0 and n-1, from the random values rnd *)
(* (rnd[i+1] is the result of rand.Intn(n - i))                            *)

RandSeqs(n) == {r \in [1..n -> 0..(n - 1)] : \A k \in 1..n : r[k] <= n - k}

\* The swap as it would be with its second assignment left out.
swap_overwrites(vals, a, b) == [vals EXCEPT ![a + 1] = vals[b + 1]]

\* Line 350: vals[a], vals[b] = vals[b], vals[a] (a and b count from 0).
swap(vals, a, b) == [vals EXCEPT ![a + 1] = vals[b + 1], ![b + 1] = vals[a + 1]]

RECURSIVE shuffle(_, _, _, _)
shuffle(vals, n, k, rnd) ==
    IF k >= n THEN vals
    ELSE LET j == rnd[k + 1] IN
         shuffle(swap(vals, k, k + j), n, k + 1, rnd)

pick(n, m, rnd) ==
    LET vals == shuffle([k \in 1..n |-> k - 1], n, 0, rnd)
    IN  [k \in 1..m |-> vals[k]]

\* What pick(n, m) can return, over all values of the random source, for
\* the n and m the catalog allows (pick exits the process unless
\* 0 < m <= n).
Picks ==
    [n \in 0..Len(HeroData), m \in 0..Len(HeroData) |->
        IF n <= 0 \/ m <= 0 \/ m > n THEN {}
        ELSE {pick(n, m, rnd) : rnd \in RandSeqs(n)}]

----------------------------------------------------------------------------
(* makeSetup *)

newSetup(pts) ==
    [Heroes |-> <<>>, Villain |-> NilCard, Environment |-> NilCard,
     PcPoints |-> pts, Difficulty |-> pts]

\* The range loop as it would be without the test of the base.
RECURSIVE heroLoop_noBaseCheck(_, _, _, _, _)
heroLoop_noBaseCheck(st, heroes, idxs, k, bases) ==
    IF k > Len(idxs) THEN st
    ELSE LET c == heroes[idxs[k] + 1] IN
         heroLoop_noBaseCheck([st EXCEPT !.Heroes = Append(st.Heroes, c),
                                         !.Difficulty = st.Difficulty + c.Points],
                              heroes, idxs, k + 1, bases)

\* The range loop over the picked indices (lines 277-287): st is the Setup,
\* bases the set of bases seen; a repeated base empties Heroes and breaks.
RECURSIVE heroLoop(_, _, _, _, _)
heroLoop(st, heroes, idxs, k, bases) ==
    IF k > Len(idxs) THEN st
    ELSE LET c == heroes[idxs[k] + 1] IN
         IF c.Base \in bases
         THEN [st EXCEPT !.Heroes = <<>>]
         ELSE heroLoop([st EXCEPT !.Heroes = Append(st.Heroes, c),
                                  !.Difficulty = st.Difficulty + c.Points],
                       heroes, idxs, k + 1, bases \cup {c.Base})

\* heroLoop as it would be without "s.Heroes = nil" before the break: the
\* heroes appended before the repeated base stay in the Setup.
RECURSIVE heroLoopKeep(_, _, _, _, _)
heroLoopKeep(st, heroes, idxs, k, bases) ==
    IF k > Len(idxs) THEN st
    ELSE LET c == heroes[idxs[k] + 1] IN
         IF c.Base \in bases
         THEN st
         ELSE heroLoopKeep([st EXCEPT !.Heroes = Append(st.Heroes, c),
                                      !.Difficulty = st.Difficulty + c.Points],
                           heroes, idxs, k + 1, bases \cup {c.Base})

heroDraw_keepsPartial(st, heroes, idxs) == heroLoopKeep(st, heroes, idxs, 1, {})

\* One pass of the "for" of lines 275-292.
heroDraw(st, heroes, idxs) == heroLoop(st, heroes, idxs, 1, {})

\* Lines 293-294 and 295-296 for the card c that was drawn.
withVillain(st, c) ==
    [st EXCEPT !.Villain = c, !.Difficulty = st.Difficulty + c.Points]
withEnvironment(st, c) ==
    [st EXCEPT !.Environment = c, !.Difficulty = st.Difficulty + c.Points]

----------------------------------------------------------------------------
(* FindSetup: the state machine of one call *)

\* The error texts of lines 272 and 309; "" is the nil error.
ErrTooMany == "Too many players for the selected heroes."
ErrNotFound == "Couldn't find a setup with these parameters."

\* The acceptance test as it would be without its upper bound.
accepts_noUpper(d, mn, mx, r) == d >= mn - r

\* The acceptance test of line 315.
accepts(d, mn, mx, r) == d >= mn - r /\ d <= mx + r

\* The count as it would be with the 0-based loop counter returned.
foundCount_zeroBased(n) == n

\* The count returned with an accepted setup (line 317).
foundCount(n) == n + 1

\* The cap test as it would be with > for >=.
capReached_offByOne(n) == n > MaxTrials

\* The cap test of line 308 (MaxTrials stands for the 100000 of the source).
capReached(n) == n >= MaxTrials

\* The count returned when giving up (line 309).
gaveUpCount(n) == n + 1

\* The inputs explored.  pc and lp reach FindSetup unvalidated from the web
\* handler; the handler passes rg = 10, the command line 0..100.
PlayerCounts == 2..6
LossPcts == {0, 24, 33, 41, 46, 50, 51, 56, 62, 100}
Ranges == {0, 10}
Selections == {<<BaseSet>>, <<Promos>>, <<BaseSet, Promos>>, <<MiniExpansion>>}

NoReturn == [Setup |-> <<>>, N |-> 0, Err |-> ""]

\* An error return as it would be with the Setup at hand passed along.
failure_keepsSetup(n, err) == [Setup |-> <<s>>, N |-> n, Err |-> err]

\* "return nil, n, err" (lines 309 and 313).
failure(n, err) == [Setup |-> <<>>, N |-> n, Err |-> err]

Init ==
    /\ pc \in PlayerCounts
    /\ lp \in LossPcts
    /\ rg \in Ranges
    /\ exp \in Selections
    /\ scale = Scale
    /\ cs = [Heroes |-> <<>>, Villains |-> <<>>, Environments |-> <<>>]
    /\ min = 0
    /\ max = 0
    /\ pcpts = 0
    /\ i = 0
    /\ s = newSetup(0)
    /\ at = "call"
    /\ ret = NoReturn
    /\ draws = 0
    /\ drew = FALSE
    /\ discards = 0
    /\ earlierOutside = TRUE
    /\ calls = 0
    /\ inv = <<>>
    /\ pk = <<>>
    /\ gc = <<>>

\* Lines 304-306: the card set, the band, the base offset of the player
\* count.  Nump[pc-3] panics when pc-3 is no index of Nump.
Enter ==
    /\ at = "call"
    /\ \E cards \in MapOrders : cs' = GetCardSet(cards, exp)
    /\ min' = findDifficultyRange(scale, lp)[1]
    /\ max' = findDifficultyRange(scale, lp)[2]
    /\ IF pc - 3 \in 0..(Len(Nump) - 1)
       THEN /\ pcpts' = Nump[pc - 3 + 1].Points
            /\ at' = "loop"
       ELSE /\ pcpts' = pcpts
            /\ at' = "panic"
    /\ UNCHANGED <<pc, lp, rg, exp, scale, i, s, ret, draws, drew, discards,
                   earlierOutside, calls, inv, pk, gc>>

\* Lines 308-310: the trial cap is reached.
GiveUp ==
    /\ at = "loop"
    /\ capReached(i)
    /\ ret' = failure(gaveUpCount(i), ErrNotFound)
    /\ at' = "done"
    /\ UNCHANGED <<pc, lp, rg, exp, scale, cs, min, max, pcpts, i, s, draws, drew,
                   discards, earlierOutside, calls, inv, pk, gc>>

\* Lines 311-314 with 271-273: makeSetup refuses, FindSetup passes the error on.
TooManyPlayers ==
    /\ at = "loop"
    /\ ~capReached(i)
    /\ pc > Len(cs.Heroes)
    /\ ret' = failure(0, ErrTooMany)
    /\ at' = "done"
    /\ calls' = calls + 1
    /\ UNCHANGED <<pc, lp, rg, exp, scale, cs, min, max, pcpts, i, s, draws, drew,
                   discards, earlierOutside, inv, pk, gc>>

\* Lines 311 with 271-274: makeSetup starts a Setup.
BeginSetup ==
    /\ at = "loop"
    /\ ~capReached(i)
    /\ pc <= Len(cs.Heroes)
    /\ s' = newSetup(pcpts)
    /\ at' = "heroes"
    /\ draws' = draws + 1
    /\ calls' = calls + 1
    /\ discards' = 0
    /\ UNCHANGED <<pc, lp, rg, exp, scale, cs, min, max, pcpts, i, ret, drew,
                   earlierOutside, inv, pk, gc>>

\* Lines 275-292: one pass of the retry loop, idxs being what pick returns.
\* A pass that ends with Heroes = nil is followed by another.
PickHeroes(idxs) ==
    /\ at = "heroes"
    /\ LET next == heroDraw(s, cs.Heroes, idxs) IN
       /\ next.Heroes = <<>> =>
             /\ next.Difficulty <= MaxAbsDifficulty
             /\ next.Difficulty >= -MaxAbsDifficulty
       /\ s' = next
       /\ at' = IF next.Heroes = <<>> THEN "heroes" ELSE "villain"
       /\ discards' = IF next.Heroes # <<>> THEN discards
                      ELSE IF discards = 1 THEN 2 ELSE 1
    /\ drew' = TRUE
    /\ UNCHANGED <<pc, lp, rg, exp, scale, cs, min, max, pcpts, i, ret, draws,
                   earlierOutside, calls, inv, pk, gc>>

\* A pass of the retry loop, for whatever values the random source gives.
DrawHeroes == at = "heroes" /\ \E idxs \in Picks[Len(cs.Heroes), pc] : PickHeroes(idxs)

\* Lines 293-294: rand.Intn panics when there is no villain to draw.
PickVillain ==
    /\ at = "villain"
    /\ IF Len(cs.Villains) = 0
       THEN /\ at' = "panic"
            /\ UNCHANGED <<s, drew>>
       ELSE /\ \E k \in 0..(Len(cs.Villains) - 1) :
                  s' = withVillain(s, cs.Villains[k + 1])
            /\ at' = "environment"
            /\ drew' = TRUE
    /\ UNCHANGED <<pc, lp, rg, exp, scale, cs, min, max, pcpts, i, ret, draws,
                   discards, earlierOutside, calls, inv, pk, gc>>

\* Lines 295-297: rand.Intn panics when there is no environment to draw.
PickEnvironment ==
    /\ at = "environment"
    /\ IF Len(cs.Environments) = 0
       THEN /\ at' = "panic"
            /\ UNCHANGED <<s, drew>>
       ELSE /\ \E k \in 0..(Len(cs.Environments) - 1) :
                  s' = withEnvironment(s, cs.Environments[k + 1])
            /\ at' = "test"
            /\ drew' = TRUE
    /\ UNCHANGED <<pc, lp, rg, exp, scale, cs, min, max, pcpts, i, ret, draws,
                   discards, earlierOutside, calls, inv, pk, gc>>

\* The interval the band and the tolerance of this call define.
InInterval(d) ==
    /\ d >= findDifficultyRange(scale, lp)[1] - rg
    /\ d <= findDifficultyRange(scale, lp)[2] + rg

\* Lines 315-318: the setup is returned with its 1-based trial number.
Accept ==
    /\ at = "test"
    /\ accepts(s.Difficulty, min, max, rg)
    /\ ret' = [Setup |-> <<s>>, N |-> foundCount(i), Err |-> ""]
    /\ at' = "done"
    /\ UNCHANGED <<pc, lp, rg, exp, scale, cs, min, max, pcpts, i, s, draws, drew,
                   discards, earlierOutside, calls, inv, pk, gc>>

\* A rejection as it would be if the tolerance were applied by updating min
\* and max in the loop.
Reject_widensBand ==
    /\ at = "test"
    /\ ~accepts(s.Difficulty, min, max, rg)
    /\ i' = i + 1
    /\ s' = newSetup(0)
    /\ at' = "loop"
    /\ discards' = 0
    /\ earlierOutside' = (earlierOutside /\ (s.Difficulty < min - rg \/ s.Difficulty > max + rg))
    /\ min' = min - rg
    /\ max' = max + rg
    /\ UNCHANGED <<pc, lp, rg, exp, scale, cs, pcpts, ret, draws, drew, calls, inv, pk, gc>>

\* Lines 315 and 307: the setup is dropped and the next trial starts.
Reject ==
    /\ at = "test"
    /\ ~accepts(s.Difficulty, min, max, rg)
    /\ i' = i + 1
    /\ s' = newSetup(0)
    /\ at' = "loop"
    /\ discards' = 0
    /\ earlierOutside' = (earlierOutside /\ (s.Difficulty < min - rg \/ s.Difficulty > max + rg))
    /\ UNCHANGED <<pc, lp, rg, exp, scale, cs, min, max, pcpts, ret, draws, drew, calls, inv, pk, gc>>

Next ==
    \/ Enter
    \/ GiveUp
    \/ TooManyPlayers
    \/ BeginSetup
    \/ DrawHeroes
    \/ PickVillain
    \/ PickEnvironment
    \/ Accept
    \/ Reject

Spec == Init /\ [][Next]_vars

----------------------------------------------------------------------------
(* Properties of FindSetup and makeSetup, checked under Spec *)

Found == at = "done" /\ ret.Setup # <<>>

RECURSIVE SumPoints(_)
SumPoints(q) == IF q = <<>> THEN 0 ELSE Head(q).Points + SumPoints(Tail(q))

\* C1: a setup FindSetup returns has its Difficulty in
\* [min - rg, max + rg], min and max being what findDifficultyRange yields
\* for lp.
C1_ReturnedScoreInInterval ==
    Found =>
        /\ ret.Setup[1].Difficulty >= findDifficultyRange(scale, lp)[1] - rg
        /\ ret.Setup[1].Difficulty <= findDifficultyRange(scale, lp)[2] + rg

\* A setup was returned whose score is above the band and inside the
\* tolerance.
C1_Witness ==
    /\ Found
    /\ ret.Setup[1].Difficulty > findDifficultyRange(scale, lp)[2]
    /\ ret.Setup[1].Difficulty <= findDifficultyRange(scale, lp)[2] + rg

\* C2: the Difficulty of every setup makeSetup returns is the base offset
\* plus the points of the heroes in the setup, of its villain and of its
\* environment, and nothing else.
C2_ScoreIsExactSum ==
    at = "test" =>
        s.Difficulty = pcpts + SumPoints(s.Heroes) + s.Villain.Points
                             + s.Environment.Points

\* C3: every setup makeSetup returns holds exactly pc heroes, no two of them
\* with the same base, also after thrown-away draws.
C3_HeroesDistinctBases ==
    at = "test" =>
        /\ Len(s.Heroes) = pc
        /\ \A a, b \in 1..Len(s.Heroes) :
              a # b => s.Heroes[a].Base # s.Heroes[b].Base

\* makeSetup returned a setup after it had thrown a draw away.
C3_Witness == at = "test" /\ discards > 0 /\ Len(s.Heroes) = pc

\* C4: when FindSetup gives up, the count it returns is MaxTrials, the
\* number of draws it made.
C4_GiveUpCountIsMaxTrials ==
    (at = "done" /\ ret.Err = ErrNotFound) =>
        /\ ret.N = MaxTrials
        /\ ret.N = draws

\* C5: the count returned with a setup is the 1-based number of the draw
\* that produced it, that draw scored inside the interval and every earlier
\* draw of the call scored outside it.
C5_FirstAcceptedDraw ==
    Found =>
        /\ ret.N = draws
        /\ InInterval(ret.Setup[1].Difficulty)
        /\ earlierOutside

\* A setup was returned by a draw that was not the first.
C5_Witness == Found /\ ret.N >= 2 /\ ret.N = draws

\* C7: when no breakpoint of the table has loss percentage lp (in the
\* shipped table: 33, 41, 46, 51, 56, 62 and every value outside 1..99),
\* findDifficultyRange yields (0, 0), and FindSetup then returns a setup only
\* if its score is within rg of zero.
NoExactMatch(tbl, l) == \A k \in 1..Len(tbl) : tbl[k].LossPct # l

C7_NoMatchGivesZeroBand ==
    at # "call" =>
        /\ lp \in {33, 41, 46, 51, 56, 62} \cup {0, 100} => NoExactMatch(scale, lp)
        /\ NoExactMatch(scale, lp) =>
              /\ min = 0
              /\ max = 0
              /\ Found => /\ ret.Setup[1].Difficulty >= -rg
                          /\ ret.Setup[1].Difficulty <= rg

\* A setup with a nonzero score was returned for a loss percentage between
\* 1 and 99 that the table does not hold.
C7_Witness ==
    /\ Found
    /\ lp \in 1..99
    /\ NoExactMatch(scale, lp)
    /\ ret.Setup[1].Difficulty # 0

Finished == at \in {"done", "panic"}

\* C8: for every pc greater than the number of eligible heroes, FindSetup
\* fails at once with the error of makeSetup: no setup, a count of zero, no
\* random draw, no retry.
C8_TooManyPlayersFailsAtOnce ==
    (Finished /\ pc > Len(cs.Heroes)) =>
        /\ at = "done"
        /\ ret = [Setup |-> <<>>, N |-> 0, Err |-> ErrTooMany]
        /\ ~drew
        /\ draws = 0

\* C9: when the selection holds no villain or no environment, FindSetup
\* returns an error value (the claim, for the player counts Nump covers).
C9_EmptyPoolIsErrorValue ==
    (/\ Finished
     /\ pc - 3 \in 0..(Len(Nump) - 1)
     /\ Len(cs.Villains) = 0 \/ Len(cs.Environments) = 0) =>
        /\ at = "done"
        /\ ret.Setup = <<>>
        /\ ret.Err # ""

\* C11: whatever pc, lp, rg and selection are passed, a call that has
\* finished has returned, with an accepted setup, with the error of
\* makeSetup or with the error of the exhausted search (the claim: there is
\* no other way for a call to end).
C11_ThreeOutcomesOnly ==
    Finished =>
        /\ at = "done"
        /\ \/ ret.Setup # <<>> /\ ret.Err = ""
           \/ ret.Setup = <<>> /\ ret.Err = ErrTooMany
           \/ ret.Setup = <<>> /\ ret.Err = ErrNotFound

\* C12: in one call of FindSetup, makeSetup is called at most MaxTrials
\* times.
C12_AtMostMaxTrialsCalls == calls <= MaxTrials

\* The search gave up after MaxTrials calls of makeSetup.
C12_Witness == at = "done" /\ ret.Err = ErrNotFound /\ calls = MaxTrials

\* C13: FindSetup returns a setup exactly when it returns no error, an
\* error comes with a nil setup, and a returned setup has its pc heroes, its
\* villain and its environment.
C13_NoPartialResult ==
    at = "done" =>
        /\ ret.Setup # <<>> <=> ret.Err = ""
        /\ ret.Setup # <<>> =>
              /\ Len(ret.Setup[1].Heroes) = pc
              /\ \A k \in 1..Len(ret.Setup[1].Heroes) : ret.Setup[1].Heroes[k] # NilCard
              /\ ret.Setup[1].Villain # NilCard
              /\ ret.Setup[1].Environment # NilCard

\* The search failed after it had built setups: it returned none of them.
C13_Witness ==
    at = "done" /\ ret.Err = ErrNotFound /\ ret.Setup = <<>> /\ draws > 0 /\ drew

IsCatalogCard(c) == \E k \in 1..Len(Cards) : Cards[k] = c

\* The cards the card set and the setup st refer to.
CardsIn(cset, st) ==
    {cset.Heroes[k] : k \in 1..Len(cset.Heroes)}
    \cup {cset.Villains[k] : k \in 1..Len(cset.Villains)}
    \cup {cset.Environments[k] : k \in 1..Len(cset.Environments)}
    \cup {st.Heroes[k] : k \in 1..Len(st.Heroes)}
    \cup ({st.Villain, st.Environment} \ {NilCard})

\* C18: FindSetup computes min and max once, before the first trial, and
\* every later step of the call (every trial, thrown-away draws included)
\* leaves them as they are; no step changes the table, the card set or a
\* card: every card the call holds has the points, base and expansion it has
\* in the catalog.
C18_BandAndDataUnchanged ==
    [][/\ scale' = scale
       /\ at = "call" => <<min', max'>> = findDifficultyRange(scale, lp)
       /\ at # "call" => min' = min /\ max' = max /\ cs' = cs
       /\ \A c \in CardsIn(cs', s') : IsCatalogCard(c)]_vars

\* A later trial of a call with a band other than (0, 0) has reached its
\* test, after a thrown-away draw.
C18_Witness == at = "test" /\ i >= 1 /\ discards > 0 /\ min # 0 /\ max # 0

----------------------------------------------------------------------------
(* Termination of FindSetup, under fair random choice *)

\* A pass of the retry loop that leaves it.
HeroesPicked == at = "heroes" /\ DrawHeroes /\ at' = "villain"

InitFair == Init /\ lp = 50 /\ rg = 10

\* The steps of the loop of FindSetup, makeSetup included.
LoopStep ==
    \/ GiveUp
    \/ TooManyPlayers
    \/ BeginSetup
    \/ DrawHeroes
    \/ PickVillain
    \/ PickEnvironment
    \/ Accept
    \/ Reject

\* Once in its loop the call keeps running, and a draw without a repeated
\* base, possible again and again, is made at some time.
FairSpec == InitFair /\ [][Next]_vars /\ WF_vars(LoopStep) /\ SF_vars(HeroesPicked)

\* C10: every call with pc no greater than the number of eligible heroes
\* ends, with a setup or with the error of the exhausted search (the claim,
\* for selections that hold a villain and an environment).
C10_EveryCallEnds ==
    (/\ at = "loop"
     /\ pc <= Len(cs.Heroes)
     /\ Len(cs.Villains) > 0
     /\ Len(cs.Environments) > 0)
    ~> (at = "done" /\ ret.Err \in {"", ErrNotFound})

Bases(heroes) == {heroes[k].Base : k \in 1..Len(heroes)}

\* The draw idxs holds two heroes with the same base.
HasRepeatedBase(heroes, idxs) ==
    \E a, b \in 1..Len(idxs) :
        a # b /\ heroes[idxs[a] + 1].Base = heroes[idxs[b] + 1].Base

\* The retry loop goes round only after a draw with a repeated base.
RetryOnlyAfterRepeatedBase ==
    [][(at = "heroes" /\ at' = "heroes") =>
          \E idxs \in Picks[Len(cs.Heroes), pc] :
              /\ HasRepeatedBase(cs.Heroes, idxs)
              /\ s' = heroDraw(s, cs.Heroes, idxs)]_vars

\* C17: when the eligible heroes hold at least pc different bases, every
\* makeSetup call that has entered its retry loop leaves it and returns a
\* setup (under fair random choice), and the loop goes round only after a
\* draw that held two heroes with the same base.
C17_RetryLoopReturnsSetup ==
    /\ (at = "heroes" /\ Cardinality(Bases(cs.Heroes)) >= pc) ~> (at = "test")
    /\ RetryOnlyAfterRepeatedBase

\* The same for selections that hold a villain and an environment.
RetryLoopReturnsSetupGivenPools ==
    /\ (/\ at = "heroes"
        /\ Cardinality(Bases(cs.Heroes)) >= pc
        /\ Len(cs.Villains) > 0
        /\ Len(cs.Environments) > 0) ~> (at = "test")
    /\ RetryOnlyAfterRepeatedBase

----------------------------------------------------------------------------
(* findDifficultyRange as a function of the table and the percentage *)

\* Bounds of the tables explored.
MaxTableLen == 4
BandTotals == {10, 5, 0, -5, -10}
BandPcts == 1..3
BandTargets == 0..4

\* A calibration table: scores descending, loss percentages not increasing.
IsCalibrationTable(tbl) ==
    \A k \in 1..(Len(tbl) - 1) :
        /\ tbl[k].Total > tbl[k + 1].Total
        /\ tbl[k].LossPct >= tbl[k + 1].LossPct

BandTables ==
    {tbl \in UNION {[1..n -> {sc(x, p) : x \in BandTotals, p \in BandPcts}] :
                       n \in 1..MaxTableLen} : IsCalibrationTable(tbl)}

ExampleTable == <<sc(100, 90), sc(90, 80), sc(80, 80), sc(70, 70)>>

InitBand ==
    /\ \/ scale \in BandTables /\ lp \in BandTargets
       \/ scale = ExampleTable /\ lp = 80
       \/ scale = Scale /\ lp \in 0..100
    /\ pc = 3
    /\ rg = 0
    /\ exp = <<>>
    /\ cs = [Heroes |-> <<>>, Villains |-> <<>>, Environments |-> <<>>]
    /\ min = 0
    /\ max = 0
    /\ pcpts = 0
    /\ i = 0
    /\ s = newSetup(0)
    /\ at = "band"
    /\ ret = NoReturn
    /\ draws = 0
    /\ drew = FALSE
    /\ discards = 0
    /\ earlierOutside = TRUE
    /\ calls = 0
    /\ inv = <<>>
    /\ pk = <<>>
    /\ gc = <<>>

\* A lookup as it would be if it took the breakpoints it matched out of the
\* table.
Lookup_consumesMatches ==
    /\ at \in {"band", "banded"}
    /\ min' = findDifficultyRange(scale, lp)[1]
    /\ max' = findDifficultyRange(scale, lp)[2]
    /\ at' = IF at = "band" THEN "banded" ELSE "rebanded"
    /\ scale' = SelectSeq(scale, LAMBDA v : v.LossPct # lp)
    /\ UNCHANGED <<pc, lp, rg, exp, cs, pcpts, i, s, ret, draws, drew,
                   discards, earlierOutside, calls, inv, pk, gc>>

\* Line 305: min, max := sd.findDifficultyRange(lp), for a first call and
\* for a second call with the same argument.
Lookup ==
    /\ at \in {"band", "banded"}
    /\ min' = findDifficultyRange(scale, lp)[1]
    /\ max' = findDifficultyRange(scale, lp)[2]
    /\ at' = IF at = "band" THEN "banded" ELSE "rebanded"
    /\ UNCHANGED <<pc, lp, rg, exp, scale, cs, pcpts, i, s, ret, draws, drew,
                   discards, earlierOutside, calls, inv, pk, gc>>

NextBand == Lookup

SpecBand == InitBand /\ [][NextBand]_vars

MatchTotals(tbl, l) == {tbl[k].Total : k \in {j \in 1..Len(tbl) : tbl[j].LossPct = l}}

\* C6: for a calibration table and a target that occurs in it, max is the
\* highest and min the lowest score among the breakpoints whose loss
\* percentage is the target, also when the highest score of the run is 0.
C6_BandIsMatchingRun ==
    (/\ at = "banded"
     /\ IsCalibrationTable(scale)
     /\ MatchTotals(scale, lp) # {}) =>
        /\ \A x \in MatchTotals(scale, lp) : min <= x /\ x <= max
        /\ min \in MatchTotals(scale, lp)
        /\ max \in MatchTotals(scale, lp)

\* C15: a call of findDifficultyRange changes nothing but its results: the
\* table and all other state stay as they are, and a second call with the
\* same loss percentage returns the min and max of the first.
C15_LookupPureIdempotent ==
    [][/\ scale' = scale
       /\ UNCHANGED <<pc, lp, rg, exp, cs, pcpts, i, s, ret, draws, drew,
                      discards, earlierOutside, calls, inv, pk, gc>>
       /\ at = "banded" => min' = min /\ max' = max]_vars

\* A second call has returned a band of more than one score.
C15_Witness == at = "rebanded" /\ min # max

\* The index of the first breakpoint of tbl with a loss percentage strictly
\* less than bound, Len(tbl) + 1 if there is none.
FirstBelow(tbl, bound) ==
    LET below == {k \in 1..Len(tbl) : tbl[k].LossPct < bound}
    IN  IF below = {} THEN Len(tbl) + 1
        ELSE CHOOSE k \in below : \A j \in below : k <= j

\* The scan of tbl for l goes through the table in stored order up to the
\* first breakpoint with a loss percentage strictly less than bound, where
\* it stops, and records the breakpoints before it with a loss percentage
\* <= l, and no others.
ScanStopsBelow(tbl, l, bound) ==
    LET end == scan(tbl, l)
        k   == FirstBelow(tbl, bound)
    IN  /\ end.stopped <=> k <= Len(tbl)
        /\ end.visited = IF k <= Len(tbl) THEN k ELSE Len(tbl)
        /\ end.matches = SelectSeq(SubSeq(tbl, 1, k - 1), LAMBDA v : v.LossPct <= l)

\* C16 as claimed: the scan stops at the first breakpoint whose loss
\* percentage is strictly less than lp - 1, and not before, and every
\* breakpoint before it with a loss percentage <= lp is recorded as a match.
C16_ScanStopsBelowTargetMinusOne ==
    at = "banded" => ScanStopsBelow(scale, lp, lp - 1)

\* C16, amended: the scan stops at the first breakpoint whose loss
\* percentage is strictly less than lp (that is, <= lp - 1), and not before,
\* and every breakpoint before it with a loss percentage <= lp is recorded
\* as a match.
C16_ScanStopsBelowTarget ==
    at = "banded" => ScanStopsBelow(scale, lp, lp)

\* The scan recorded a match and then stopped at a breakpoint whose loss
\* percentage is lp - 1.
C16_Witness ==
    /\ at = "banded"
    /\ scan(scale, lp).stopped
    /\ scan(scale, lp).matches # <<>>
    /\ scale[scan(scale, lp).visited].LossPct = lp - 1

----------------------------------------------------------------------------
(* makeSetup on a catalog of three heroes, two of them with one base *)

ScenarioHeroes ==
    <<makeCard(diff("A", "", 10), Hero),
      makeCard(diff("B", "", -10), Hero),
      makeCard(diff("C", "A", 5), Hero)>>
ScenarioVillains == <<makeCard(diff("X", "", 20), Villain)>>
ScenarioEnvironments == <<makeCard(diff("E", "", 0), Environment)>>

\* FindSetup is in its loop with pc = 2 and a base offset of 0; the heroes
\* are in one of the orders the map iteration may have given.
InitScenario ==
    /\ pc = 2
    /\ lp = 50
    /\ rg = 0
    /\ exp = <<BaseSet>>
    /\ scale = Scale
    /\ \E heroes \in {ScenarioHeroes, Reverse(ScenarioHeroes)} :
          cs = [Heroes |-> heroes, Villains |-> ScenarioVillains,
                Environments |-> ScenarioEnvironments]
    /\ min = 0
    /\ max = 0
    /\ pcpts = 0
    /\ i = 0
    /\ s = newSetup(0)
    /\ at = "loop"
    /\ ret = NoReturn
    /\ draws = 0
    /\ drew = FALSE
    /\ discards = 0
    /\ earlierOutside = TRUE
    /\ calls = 0
    /\ inv = <<>>
    /\ pk = <<>>
    /\ gc = <<>>

\* The steps of one makeSetup call; at = "test" is its return.
NextScenario ==
    \/ BeginSetup
    \/ DrawHeroes
    \/ PickVillain
    \/ PickEnvironment

SpecScenario == InitScenario /\ [][NextScenario]_vars

HeroNames(st) == {st.Heroes[k].Name : k \in 1..Len(st.Heroes)}

----------------------------------------------------------------------------
(* Two FindSetup calls at once (the web server runs each request in its    *)
(* own goroutine).  The calls share the catalog, the table and the random  *)
(* source; cs, min, max, pcpts, i and the Setup are locals of each call.   *)
(* A step of a call is its entry or one iteration of its loop: makeSetup   *)
(* reads only the catalog and writes only the Setup it allocates.          *)

Invocations == {"a", "b"}

\* The arguments of the calls explored.
ConcPlayerCounts == {3, 5}
ConcLossPcts == {24, 50}
ConcSelection == <<BaseSet, Promos>>

\* The variables of the single call, not used here.
callVars == <<pc, lp, rg, exp, cs, min, max, pcpts, i, s, at, ret, draws, drew,
              discards, earlierOutside, calls, pk, gc>>

\* The results of the passes of the retry loop from the Setup st.
passes(st, cset, m) ==
    {heroDraw(st, cset.Heroes, idxs) : idxs \in Picks[Len(cset.Heroes), m]}

\* The Setups the retry loop can be in at the start of a pass: seen, and
\* those reached from frontier by thrown-away passes.
RECURSIVE retryStates(_, _, _, _)
retryStates(seen, frontier, cset, m) ==
    IF frontier = {} THEN seen
    ELSE LET thrown == {x \in UNION {passes(st, cset, m) : st \in frontier} :
                           /\ x.Heroes = <<>>
                           /\ x.Difficulty <= MaxAbsDifficulty
                           /\ x.Difficulty >= -MaxAbsDifficulty}
         IN  retryStates(seen \cup thrown, thrown \ seen, cset, m)

\* Every Setup a makeSetup call can return for the card set cset, m players
\* and the base offset pts (lines 274-297; cset holds a villain and an
\* environment).
makeSetups(cset, m, pts) ==
    LET starts == retryStates({newSetup(pts)}, {newSetup(pts)}, cset, m)
        drawn  == {x \in UNION {passes(st, cset, m) : st \in starts} : x.Heroes # <<>>}
    IN  {withEnvironment(withVillain(x, cset.Villains[v]), cset.Environments[e]) :
            x \in drawn, v \in 1..Len(cset.Villains), e \in 1..Len(cset.Environments)}

ConcCardSets == {GetCardSet(cards, ConcSelection) : cards \in MapOrders}

SetupsOf ==
    [c \in ConcCardSets, m \in ConcPlayerCounts |->
        IF m > Len(c.Heroes) THEN {} ELSE makeSetups(c, m, Nump[m - 3 + 1].Points)]

\* The locals of a call at its start.
newCall(m, l) ==
    [pc |-> m, lp |-> l, rg |-> 10, exp |-> ConcSelection,
     cs |-> [Heroes |-> <<>>, Villains |-> <<>>, Environments |-> <<>>],
     min |-> 0, max |-> 0, pcpts |-> 0, i |-> 0, at |-> "call",
     ret |-> NoReturn, draws |-> 0]

\* Call "a" is for 3 players and 50 percent; call "b" takes each of the
\* arguments explored.
InitConc ==
    /\ \E m \in ConcPlayerCounts, l \in ConcLossPcts :
          inv = [p \in Invocations |-> IF p = "a" THEN newCall(3, 50) ELSE newCall(m, l)]
    /\ scale = Scale
    /\ pc = 3
    /\ lp = 0
    /\ rg = 0
    /\ exp = <<>>
    /\ cs = [Heroes |-> <<>>, Villains |-> <<>>, Environments |-> <<>>]
    /\ min = 0
    /\ max = 0
    /\ pcpts = 0
    /\ i = 0
    /\ s = newSetup(0)
    /\ at = "conc"
    /\ ret = NoReturn
    /\ draws = 0
    /\ drew = FALSE
    /\ discards = 0
    /\ earlierOutside = TRUE
    /\ calls = 0
    /\ pk = <<>>
    /\ gc = <<>>

\* Lines 304-306 in invocation p.
ConcEnter(p) ==
    LET l == inv[p] IN
    /\ l.at = "call"
    /\ \E cards \in MapOrders :
          inv' = [inv EXCEPT ![p] =
                     [l EXCEPT !.cs = GetCardSet(cards, l.exp),
                               !.min = findDifficultyRange(scale, l.lp)[1],
                               !.max = findDifficultyRange(scale, l.lp)[2],
                               !.pcpts = Nump[l.pc - 3 + 1].Points,
                               !.at = "loop"]]
    /\ UNCHANGED <<scale, callVars>>

\* Lines 308-310 in invocation p.
ConcGiveUp(p) ==
    LET l == inv[p] IN
    /\ l.at = "loop"
    /\ capReached(l.i)
    /\ inv' = [inv EXCEPT ![p] = [l EXCEPT !.ret = failure(gaveUpCount(l.i), ErrNotFound),
                                           !.at = "done"]]
    /\ UNCHANGED <<scale, callVars>>

\* Lines 311-314 in invocation p: makeSetup refuses.
ConcTooManyPlayers(p) ==
    LET l == inv[p] IN
    /\ l.at = "loop"
    /\ ~capReached(l.i)
    /\ l.pc > Len(l.cs.Heroes)
    /\ inv' = [inv EXCEPT ![p] = [l EXCEPT !.ret = failure(0, ErrTooMany), !.at = "done"]]
    /\ UNCHANGED <<scale, callVars>>

\* An iteration as it would be with the loop counter i a package variable,
\* shared by the invocations.
ConcTrial_sharedCounter(p) ==
    LET l == inv[p] IN
    /\ l.at = "loop"
    /\ ~capReached(l.i)
    /\ l.pc <= Len(l.cs.Heroes)
    /\ \/ \E st \in {x \in SetupsOf[l.cs, l.pc] : accepts(x.Difficulty, l.min, l.max, l.rg)} :
             inv' = [inv EXCEPT ![p] =
                       [l EXCEPT !.ret = [Setup |-> <<st>>, N |-> foundCount(l.i), Err |-> ""],
                                 !.at = "done",
                                 !.draws = l.draws + 1]]
       \/ /\ \E st \in SetupsOf[l.cs, l.pc] : ~accepts(st.Difficulty, l.min, l.max, l.rg)
          /\ inv' = [q \in Invocations |->
                       IF q = p THEN [l EXCEPT !.i = l.i + 1, !.draws = l.draws + 1]
                       ELSE [inv[q] EXCEPT !.i = l.i + 1]]
    /\ UNCHANGED <<scale, callVars>>

\* Lines 311-318 in invocation p: makeSetup returns a Setup st, which is
\* returned if it passes the test of line 315 and dropped if not.
ConcTrial(p) ==
    LET l == inv[p] IN
    /\ l.at = "loop"
    /\ ~capReached(l.i)
    /\ l.pc <= Len(l.cs.Heroes)
    /\ \/ \E st \in {x \in SetupsOf[l.cs, l.pc] : accepts(x.Difficulty, l.min, l.max, l.rg)} :
             inv' = [inv EXCEPT ![p] =
                       [l EXCEPT !.ret = [Setup |-> <<st>>, N |-> foundCount(l.i), Err |-> ""],
                                 !.at = "done",
                                 !.draws = l.draws + 1]]
       \/ /\ \E st \in SetupsOf[l.cs, l.pc] : ~accepts(st.Difficulty, l.min, l.max, l.rg)
          /\ inv' = [inv EXCEPT ![p] = [l EXCEPT !.i = l.i + 1, !.draws = l.draws + 1]]
    /\ UNCHANGED <<scale, callVars>>

NextConc ==
    \E p \in Invocations :
        \/ ConcEnter(p)
        \/ ConcGiveUp(p)
        \/ ConcTooManyPlayers(p)
        \/ ConcTrial(p)

SpecConc == InitConc /\ [][NextConc]_vars

ConcReturned(p) == inv[p].at = "done" /\ inv[p].ret.Setup # <<>>

\* The band of the shipped table for each loss percentage explored.
BandOf == [l \in ConcLossPcts |-> findDifficultyRange(Scale, l)]

\* C19: a step of one invocation changes the locals of no other and not the
\* table; whatever the interleaving, the setup an invocation returns has pc
\* heroes of pairwise different bases (pc being its own argument), a score
\* in the interval of its own lp and rg, and comes with the number of its
\* own draws.
C19_InvocationsIndependent ==
    /\ [][/\ scale' = scale
          /\ \A p, q \in Invocations :
                (p # q /\ inv'[p] # inv[p]) => inv'[q] = inv[q]]_vars
    /\ [](\A p \in Invocations :
             ConcReturned(p) =>
                LET st == inv[p].ret.Setup[1]
                    band == BandOf[inv[p].lp]
                IN  /\ Len(st.Heroes) = inv[p].pc
                    /\ \A a, b \in 1..Len(st.Heroes) :
                          a # b => st.Heroes[a].Base # st.Heroes[b].Base
                    /\ st.Difficulty >= band[1] - inv[p].rg
                    /\ st.Difficulty <= band[2] + inv[p].rg
                    /\ inv[p].ret.N = inv[p].draws)

\* Both invocations returned a setup, for different loss percentages and
\* after different numbers of draws.
C19_Witness ==
    /\ ConcReturned("a")
    /\ ConcReturned("b")
    /\ inv["a"].lp # inv["b"].lp
    /\ inv["a"].ret.N # inv["b"].ret.N

----------------------------------------------------------------------------
(* pick(n, m), step by step *)

\* The greatest n explored.
MaxPickN == 4

\* The variables of FindSetup, not used here.
findVars == <<pc, lp, rg, exp, scale, cs, min, max, pcpts, i, s, at, ret, draws,
              drew, discards, earlierOutside, calls, inv, gc>>

InitPick ==
    /\ \E n \in 0..MaxPickN, m \in 0..MaxPickN :
          pk = [n |-> n, m |-> m, vals |-> <<>>, i |-> 0, j |-> 0, res |-> <<>>,
                at |-> "call"]
    /\ pc = 3
    /\ lp = 0
    /\ rg = 0
    /\ exp = <<>>
    /\ scale = Scale
    /\ cs = [Heroes |-> <<>>, Villains |-> <<>>, Environments |-> <<>>]
    /\ min = 0
    /\ max = 0
    /\ pcpts = 0
    /\ i = 0
    /\ s = newSetup(0)
    /\ at = "pick"
    /\ ret = NoReturn
    /\ draws = 0
    /\ drew = FALSE
    /\ discards = 0
    /\ earlierOutside = TRUE
    /\ calls = 0
    /\ inv = <<>>
    /\ gc = <<>>

\* Lines 340-346: the arguments are checked (log.Fatalf ends the process)
\* and vals is filled with 0 .. n-1.
PickStart ==
    /\ pk.at = "call"
    /\ pk' = IF pk.n <= 0 \/ pk.m <= 0 \/ pk.m > pk.n
             THEN [pk EXCEPT !.at = "fatal"]
             ELSE [pk EXCEPT !.vals = [k \in 1..pk.n |-> k - 1], !.at = "loop"]
    /\ UNCHANGED findVars

\* Lines 348-351: one iteration of the shuffle, j being what rand.Intn(n-i)
\* returns.
PickSwap ==
    /\ pk.at = "loop"
    /\ pk.i < pk.n
    /\ \E j \in 0..(pk.n - pk.i - 1) :
          pk' = [pk EXCEPT !.vals = swap(pk.vals, pk.i, pk.i + j),
                           !.j = j,
                           !.i = pk.i + 1]
    /\ UNCHANGED findVars

\* Lines 352-355: the first m values are the result.
PickReturn ==
    /\ pk.at = "loop"
    /\ pk.i >= pk.n
    /\ pk' = [pk EXCEPT !.res = [k \in 1..pk.m |-> pk.vals[k]], !.at = "done"]
    /\ UNCHANGED findVars

NextPick ==
    \/ PickStart
    \/ PickSwap
    \/ PickReturn

SpecPick == InitPick /\ [][NextPick]_vars

Range(q) == {q[k] : k \in 1..Len(q)}

\* What pick(n, m) returns over all values of the random source.
PickResults ==
    [n \in 1..MaxPickN, m \in 1..MaxPickN |->
        IF m > n THEN {} ELSE {pick(n, m, rnd) : rnd \in RandSeqs(n)}]

\* C20: for 1 <= m <= n, after every swap vals is a permutation of 0 .. n-1
\* and the swap used indices inside vals; the result has m entries, all
\* different and all in 0 .. n-1; and every subset of 0 .. n-1 with m
\* elements is the result for some values of the random source.
C20_PickReturnsSubset ==
    /\ pk.at \in {"loop", "done"} =>
          /\ Len(pk.vals) = pk.n
          /\ Range(pk.vals) = 0..(pk.n - 1)
          /\ pk.i > 0 => /\ pk.i - 1 + pk.j >= 0
                         /\ pk.i - 1 + pk.j <= pk.n - 1
    /\ pk.at = "done" =>
          /\ Len(pk.res) = pk.m
          /\ \A a, b \in 1..Len(pk.res) : a # b => pk.res[a] # pk.res[b]
          /\ Range(pk.res) \subseteq 0..(pk.n - 1)
          /\ pk.res \in PickResults[pk.n, pk.m]
    /\ pk.at = "loop" =>
          \A S \in {T \in SUBSET (0..(pk.n - 1)) : Cardinality(T) = pk.m} :
              \E r \in PickResults[pk.n, pk.m] : Range(r) = S

\* pick returned fewer than n numbers, the first of them not 0 and the last
\* of them swapped into place from further back.
C20_Witness ==
    /\ pk.at = "done"
    /\ pk.m >= 2
    /\ pk.m < pk.n
    /\ pk.res[1] # 0
    /\ pk.res[pk.m] > pk.m

----------------------------------------------------------------------------
(* GetCardSet(exp), step by step *)

\* The longest selection explored.
MaxSelLen == 3

\* The selections explored: every slice of expansions up to that length,
\* the empty one and those that name an expansion more than once included.
SelectionsUpTo ==
    UNION {[1..n -> {BaseSet, MiniExpansion, Promos}] : n \in 0..MaxSelLen}

\* The body of the range loop as it would be with the append inside the
\* loop over exp, without the found flag and its break.
addCard_perMatch(cset, c, e) ==
    LET copies == [j \in 1..Cardinality({k \in 1..Len(e) : c.Expansion = e[k]}) |-> c]
    IN  IF c.Type = Hero THEN [cset EXCEPT !.Heroes = cset.Heroes \o copies]
        ELSE IF c.Type = Villain THEN [cset EXCEPT !.Villains = cset.Villains \o copies]
        ELSE IF c.Type = Environment
             THEN [cset EXCEPT !.Environments = cset.Environments \o copies]
        ELSE cset

\* The body of the range loop for card c (lines 202-219).
addCard(cset, c, e) ==
    IF ~found(c, e) THEN cset
    ELSE IF c.Type = Hero THEN [cset EXCEPT !.Heroes = Append(cset.Heroes, c)]
    ELSE IF c.Type = Villain THEN [cset EXCEPT !.Villains = Append(cset.Villains, c)]
    ELSE IF c.Type = Environment
         THEN [cset EXCEPT !.Environments = Append(cset.Environments, c)]
    ELSE cset

\* The variables of FindSetup and pick, not used here.
otherVars == <<pc, lp, rg, exp, scale, cs, min, max, pcpts, i, s, at, ret, draws,
               drew, discards, earlierOutside, calls, inv, pk>>

\* Line 200: cs is new; cards is the order in which the range over the map
\* will yield the cards, k the number of cards it has yielded.
InitCards ==
    /\ \E e \in SelectionsUpTo, cards \in MapOrders :
          gc = [exp |-> e, cards |-> cards, k |-> 0, at |-> "loop",
                cs |-> [Heroes |-> <<>>, Villains |-> <<>>, Environments |-> <<>>]]
    /\ pc = 3
    /\ lp = 0
    /\ rg = 0
    /\ exp = <<>>
    /\ scale = Scale
    /\ cs = [Heroes |-> <<>>, Villains |-> <<>>, Environments |-> <<>>]
    /\ min = 0
    /\ max = 0
    /\ pcpts = 0
    /\ i = 0
    /\ s = newSetup(0)
    /\ at = "cards"
    /\ ret = NoReturn
    /\ draws = 0
    /\ drew = FALSE
    /\ discards = 0
    /\ earlierOutside = TRUE
    /\ calls = 0
    /\ inv = <<>>
    /\ pk = <<>>

\* Lines 201-220: one iteration of the range loop.
CardStep ==
    /\ gc.at = "loop"
    /\ gc.k < Len(gc.cards)
    /\ gc' = [gc EXCEPT !.cs = addCard(gc.cs, gc.cards[gc.k + 1], gc.exp),
                        !.k = gc.k + 1]
    /\ UNCHANGED otherVars

\* Line 221: return cs.
CardsReturn ==
    /\ gc.at = "loop"
    /\ gc.k >= Len(gc.cards)
    /\ gc' = [gc EXCEPT !.at = "done"]
    /\ UNCHANGED otherVars

NextCards ==
    \/ CardStep
    \/ CardsReturn

SpecCards == InitCards /\ [][NextCards]_vars

\* How often the card c occurs in the sequence q.
Occurrences(q, c) == Cardinality({k \in 1..Len(q) : q[k] = c})

\* C21: the card set GetCardSet returns holds a card of the catalog if and
\* only if the card's expansion occurs in exp; a card it holds occurs once,
\* in the collection of its type and in no other, also when exp names an
\* expansion more than once.  (The result is the one the operator
\* GetCardSet gives for the same iteration order.)
C21_CardSetIsSelection ==
    gc.at = "done" =>
        /\ \A k \in 1..Len(gc.cards) :
              LET c == gc.cards[k]
                  inExp == \E j \in 1..Len(gc.exp) : gc.exp[j] = c.Expansion
              IN  /\ Occurrences(gc.cs.Heroes, c)
                        = IF inExp /\ c.Type = Hero THEN 1 ELSE 0
                  /\ Occurrences(gc.cs.Villains, c)
                        = IF inExp /\ c.Type = Villain THEN 1 ELSE 0
                  /\ Occurrences(gc.cs.Environments, c)
                        = IF inExp /\ c.Type = Environment THEN 1 ELSE 0
        /\ \A c \in Range(gc.cs.Heroes) \cup Range(gc.cs.Villains)
                    \cup Range(gc.cs.Environments) : c \in Range(gc.cards)
        /\ gc.cs = GetCardSet(gc.cards, gc.exp)

\* GetCardSet returned for a selection that names an expansion twice: it
\* holds cards of that expansion and leaves cards of the catalog out.
C21_Witness ==
    /\ gc.at = "done"
    /\ \E a, b \in 1..Len(gc.exp) : a # b /\ gc.exp[a] = gc.exp[b]
    /\ Len(gc.cs.Heroes) > 0
    /\ Len(gc.cs.Villains) > 0
    /\ Len(gc.cs.Heroes) + Len(gc.cs.Villains) + Len(gc.cs.Environments) < Len(gc.cards)

====
